---------------------------- MODULE Spec2Model ----------------------------
(***************************************************************************)
(* A model of the routing-and-formatting core of trace4rs:                 *)
(*   config/src/config.rs            Policy::calculate_maximum_file_size   *)
(*   trace4rs/src/handle/loggers.rs  Logger, EventFormatter,               *)
(*                                   CustomFormatter, UtcOffsetTime        *)
(* Strings are TLA+ strings (Len, \o and SubSeq act on them).  A u64 is    *)
(* held as its canonical decimal numeral, because the values that matter   *)
(* (up to 2^64 and beyond) do not fit the model checker's integers; the    *)
(* arithmetic below works on the digits.                                   *)
(***************************************************************************)
EXTENDS Integers, Sequences, FiniteSets, TLC

VARIABLES
    size,      \* the size string handed to the parser, by its parts
    result,    \* what calculate_maximum_file_size returned (NoResult before)
    config,    \* the Config the handle was built from
    appenders, \* the appender registry: the ids it resolves
    loggers,   \* the dispatch stages: one Logger per key
    last       \* the call in progress on the stages and what it did

vars == <<size, result, config, appenders, loggers, last>>

sizeVars == <<size, result>>

engineVars == <<config, appenders, loggers, last>>

(***************************************************************************)
(* Characters and strings                                                  *)
(***************************************************************************)
CharAt(s, i) == SubSeq(s, i, i)

Rest(s, i) == IF i > Len(s) THEN "" ELSE SubSeq(s, i, Len(s))

DigitChars == "0123456789"

LowerChars == "abcdefghijklmnopqrstuvwxyz"

UpperChars == "ABCDEFGHIJKLMNOPQRSTUVWXYZ"

\* char::is_digit(10)
is_digit(c) == \E d \in 1..10 : CharAt(DigitChars, d) = c

\* char::is_whitespace, for the white space the inputs use
is_whitespace(c) == c \in {" ", "\t", "\n"}

\* char::to_ascii_lowercase
to_ascii_lowercase(c) ==
    IF \E k \in 1..26 : CharAt(UpperChars, k) = c
    THEN CharAt(LowerChars, CHOOSE k \in 1..26 : CharAt(UpperChars, k) = c)
    ELSE c

\* the units compared as written (unit == "kb"), case and all
eq_exact(a, b) == a = b

\* str::eq_ignore_ascii_case
eq_ignore_ascii_case(a, b) ==
    /\ Len(a) = Len(b)
    /\ \A i \in 1..Len(a) :
          to_ascii_lowercase(CharAt(a, i)) = to_ascii_lowercase(CharAt(b, i))

\* str::trim: the string without its leading and trailing white space
trim(s) ==
    LET keep == {i \in 1..Len(s) : ~is_whitespace(CharAt(s, i))}
    IN  IF keep = {} THEN ""
        ELSE SubSeq(s, CHOOSE i \in keep : \A j \in keep : i <= j,
                       CHOOSE i \in keep : \A j \in keep : j <= i)

\* Option<T>
None == [some |-> FALSE, v |-> 0]

Some(x) == [some |-> TRUE, v |-> x]

\* str::find(|c| !c.is_digit(10)): Some(the 0-based place of the first
\* character that is no digit), or None
find_non_digit(s) ==
    LET hits == {i \in 1..Len(s) : ~is_digit(CharAt(s, i))}
    IN  IF hits = {} THEN None
        ELSE Some((CHOOSE i \in hits : \A j \in hits : i <= j) - 1)

(***************************************************************************)
(* u64 arithmetic.  A number is a sequence of limbs in base 10000, most    *)
(* significant first, canonical when it has no leading zero limb; its      *)
(* decimal numeral is the limbs' digits, four per limb.                    *)
(***************************************************************************)
RECURSIVE Canon(_)
Canon(ds) ==
    IF Len(ds) > 1 /\ Head(ds) = 0 THEN Canon(Tail(ds)) ELSE ds

\* a <= b on canonical numbers
RECURSIVE LexLeq(_, _)
LexLeq(a, b) ==
    IF a = <<>> THEN TRUE
    ELSE IF Head(a) # Head(b) THEN Head(a) < Head(b)
    ELSE LexLeq(Tail(a), Tail(b))

NumLeq(a, b) ==
    \/ Len(a) < Len(b)
    \/ Len(a) = Len(b) /\ LexLeq(a, b)

\* ds * m + carry, for m < 10000, limb by limb from the right
RECURSIVE MulSmallAcc(_, _, _, _)
MulSmallAcc(ds, m, carry, acc) ==
    IF ds = <<>>
    THEN IF carry = 0 THEN acc
         ELSE MulSmallAcc(<<>>, m, carry \div 10000, <<carry % 10000>> \o acc)
    ELSE LET v == ds[Len(ds)] * m + carry
         IN  MulSmallAcc(SubSeq(ds, 1, Len(ds) - 1), m, v \div 10000,
                         <<v % 10000>> \o acc)

NumMulSmall(ds, m) == Canon(MulSmallAcc(ds, m, 0, <<>>))

RECURSIVE AddAcc(_, _, _, _)
AddAcc(a, b, carry, acc) ==
    IF a = <<>> /\ b = <<>>
    THEN IF carry = 0 THEN acc ELSE <<carry>> \o acc
    ELSE LET x == IF a = <<>> THEN 0 ELSE a[Len(a)]
             y == IF b = <<>> THEN 0 ELSE b[Len(b)]
             v == x + y + carry
         IN  AddAcc(IF a = <<>> THEN a ELSE SubSeq(a, 1, Len(a) - 1),
                    IF b = <<>> THEN b ELSE SubSeq(b, 1, Len(b) - 1),
                    v \div 10000, <<v % 10000>> \o acc)

NumAdd(a, b) == Canon(AddAcc(a, b, 0, <<>>))

\* a * b, schoolbook: one row per limb of b
RECURSIVE MulAcc(_, _, _)
MulAcc(a, b, acc) ==
    IF b = <<>> THEN acc
    ELSE MulAcc(a, Tail(b),
                NumAdd(acc \o <<0>>, NumMulSmall(a, Head(b))))

NumMul(a, b) == Canon(MulAcc(a, b, <<0>>))

DigitOf(c) == (CHOOSE d \in 1..10 : CharAt(DigitChars, d) = c) - 1

DigitStr(d) == CharAt(DigitChars, d + 1)

\* the limb written with four digits
LimbStr(v) ==
    DigitStr(v \div 1000) \o DigitStr((v \div 100) % 10)
        \o DigitStr((v \div 10) % 10) \o DigitStr(v % 10)

RECURSIVE StripZeros(_)
StripZeros(s) ==
    IF Len(s) > 1 /\ CharAt(s, 1) = "0" THEN StripZeros(Rest(s, 2)) ELSE s

RECURSIVE LimbsStr(_)
LimbsStr(ds) ==
    IF ds = <<>> THEN "" ELSE LimbStr(Head(ds)) \o LimbsStr(Tail(ds))

\* the decimal numeral of a number
NumToStr(ds) == StripZeros(LimbsStr(ds))

RECURSIVE DigitsValue(_, _)
DigitsValue(s, acc) ==
    IF Len(s) = 0 THEN acc
    ELSE DigitsValue(Rest(s, 2), acc * 10 + DigitOf(CharAt(s, 1)))

\* the number a decimal numeral (digits only) denotes
RECURSIVE StrToNum(_)
StrToNum(s) ==
    IF Len(s) <= 4 THEN <<DigitsValue(s, 0)>>
    ELSE Canon(StrToNum(SubSeq(s, 1, Len(s) - 4))
               \o <<DigitsValue(SubSeq(s, Len(s) - 3, Len(s)), 0)>>)

\* u64::MAX = 2^64 - 1
U64_MAX == StrToNum("18446744073709551615")


\* u64::saturating_mul in the place of checked_mul
saturating_mul(a, b) ==
    LET p == NumMul(a, b)
    IN  IF NumLeq(p, U64_MAX) THEN Some(p) ELSE Some(U64_MAX)

\* u64::checked_mul
checked_mul(a, b) ==
    LET p == NumMul(a, b)
    IN  IF NumLeq(p, U64_MAX) THEN Some(p) ELSE None

(***************************************************************************)
(* Result<u64, Error> of the size parser, one record shape for all         *)
(***************************************************************************)
NoResult == [tag |-> "none", value |-> "", number |-> "", unit |-> "", kind |-> ""]

Ok(n) == [NoResult EXCEPT !.tag = "Ok", !.value = NumToStr(n)]

ErrParseInt(k) == [NoResult EXCEPT !.tag = "ParseInt", !.kind = k]

ErrUnexpectedUnit(u) == [NoResult EXCEPT !.tag = "UnexpectedUnit", !.unit = u]

ErrOverflow(n, u) ==
    [NoResult EXCEPT !.tag = "Overflow", !.number = NumToStr(n), !.unit = u]

\* <u64 as FromStr>::from_str on the digits: checked *10 and +digit
RECURSIVE ParseDigits(_, _)
ParseDigits(s, acc) ==
    IF Len(s) = 0 THEN Some(acc)
    ELSE LET m == NumMulSmall(acc, 10)
             a == NumAdd(m, <<DigitOf(CharAt(s, 1))>>)
         IN  IF ~NumLeq(m, U64_MAX) \/ ~NumLeq(a, U64_MAX) THEN None
             ELSE ParseDigits(Rest(s, 2), a)

\* number.parse::<u64>(): Ok(n) or the kind of the ParseIntError
parse_u64(s) ==
    IF Len(s) = 0 THEN ErrParseInt("Empty")
    ELSE LET ds == IF CharAt(s, 1) = "+" /\ Len(s) > 1 THEN Rest(s, 2) ELSE s
         IN  IF \E i \in 1..Len(ds) : ~is_digit(CharAt(ds, i))
             THEN ErrParseInt("InvalidDigit")
             ELSE LET r == ParseDigits(ds, <<0>>)
                  IN  IF r.some THEN Ok(r.v) ELSE ErrParseInt("PosOverflow")

KB == <<1024>>

MB == NumMulSmall(KB, 1024)

GB == NumMulSmall(MB, 1024)

TB == NumMulSmall(GB, 1024)

\* Policy::calculate_maximum_file_size
calculate_maximum_file_size(sz) ==
    LET f      == find_non_digit(sz)
        first  == SubSeq(sz, 1, f.v)
        rest   == Rest(sz, f.v + 1)
        number == IF f.some THEN trim(first) ELSE trim(sz)
        unit   == IF f.some THEN Some(trim(rest)) ELSE None
        parsed == parse_u64(number)
        n      == StrToNum(parsed.value)
        u      == unit.v
        bytes_number ==
            IF eq_ignore_ascii_case(u, "b") THEN Some(n)
            ELSE IF eq_ignore_ascii_case(u, "kb") \/ eq_ignore_ascii_case(u, "kib")
            THEN checked_mul(n, KB)
            ELSE IF eq_ignore_ascii_case(u, "mb") \/ eq_ignore_ascii_case(u, "mib")
            THEN checked_mul(n, MB)
            ELSE IF eq_ignore_ascii_case(u, "gb") \/ eq_ignore_ascii_case(u, "gib")
            THEN checked_mul(n, GB)
            ELSE checked_mul(n, TB)
        known ==
            \E k \in {"b", "kb", "kib", "mb", "mib", "gb", "gib", "tb", "tib"} :
                eq_ignore_ascii_case(u, k)
    IN  IF parsed.tag # "Ok" THEN parsed
        ELSE IF ~unit.some THEN Ok(n)
        ELSE IF ~known THEN ErrUnexpectedUnit(u)
        ELSE IF bytes_number.some THEN Ok(bytes_number.v)
        ELSE ErrOverflow(n, u)

(***************************************************************************)
(* Severity & target matcher: Logger::is_enabled                           *)
(***************************************************************************)
Levels == {"ERROR", "WARN", "INFO", "DEBUG", "TRACE"}

LevelFilters == Levels \cup {"OFF"}

\* tracing's Level as usize: the more verbose, the smaller
level_usize(l) ==
    CASE l = "TRACE" -> 0 [] l = "DEBUG" -> 1 [] l = "INFO" -> 2
      [] l = "WARN" -> 3 [] l = "ERROR" -> 4

\* tracing's LevelFilter as usize: OFF is above every level
filter_usize(f) == IF f = "OFF" THEN 5 ELSE level_usize(f)

\* meta.level() < &self.level, the comparison a slip would write
level_lt(l, f) == filter_usize(f) < level_usize(l)

\* meta.level() <= &self.level
level_le(l, f) == filter_usize(f) <= level_usize(l)

\* str::starts_with
starts_with(s, t) == Len(t) <= Len(s) /\ SubSeq(s, 1, Len(t)) = t

\* Logger::is_enabled
is_enabled(self, meta) ==
    LET match_level  == level_le(meta.level, self.level)
        match_target == IF self.target.some
                        THEN starts_with(meta.target, self.target.v)
                        ELSE TRUE
    IN  match_level /\ match_target

\* an enabled that tests the level alone
enabled_level_only(self, meta) == level_le(meta.level, self.level)

\* <Logger as Layer>::enabled
enabled(self, meta) == is_enabled(self, meta)

(***************************************************************************)
(* Appender multiplexer: Logger::mk_writer and the writers it composes     *)
(***************************************************************************)
\* BoxMakeWriter::new(io::sink)
SinkWriter == [kind |-> "sink", id |-> "", a |-> <<>>, b |-> <<>>]

\* BoxMakeWriter::new(appender)
AppenderWriter(id) == [kind |-> "appender", id |-> id, a |-> <<>>, b |-> <<>>]

\* BoxMakeWriter::new(MakeWriterExt::and(acc, appender))
Tee(acc, w) == [kind |-> "tee", id |-> "", a |-> acc, b |-> w]

\* a loop that keeps the last resolved appender instead of combining
RECURSIVE mk_writer_last_wins(_, _, _)
mk_writer_last_wins(ids, registry, acc) ==
    IF ids = <<>> THEN acc
    ELSE mk_writer_last_wins(Tail(ids), registry,
            IF Head(ids) \in registry THEN Some(AppenderWriter(Head(ids))) ELSE acc)

\* Logger::mk_writer: ids in the order the set is iterated
RECURSIVE mk_writer(_, _, _)
mk_writer(ids, registry, acc) ==
    IF ids = <<>> THEN acc
    ELSE mk_writer(Tail(ids), registry,
            IF Head(ids) \in registry
            THEN IF acc.some THEN Some(Tee(acc.v, AppenderWriter(Head(ids))))
                 ELSE Some(AppenderWriter(Head(ids)))
            ELSE acc)

\* one write_all on a sink: the bytes, and whether the sink took them
Attempt(id, buf, bad) == [id |-> id, buf |-> buf, ok |-> id \notin bad]

\* a tee that stops at the first failure (a.write_all(buf)?; b.write_all(buf))
RECURSIVE write_all_short_circuit(_, _, _)
write_all_short_circuit(w, buf, bad) ==
    IF w.kind = "sink" THEN [attempts |-> <<>>, ok |-> TRUE]
    ELSE IF w.kind = "appender"
    THEN [attempts |-> <<Attempt(w.id, buf, bad)>>, ok |-> w.id \notin bad]
    ELSE LET ra == write_all_short_circuit(w.a, buf, bad)
             rb == write_all_short_circuit(w.b, buf, bad)
         IN  IF ra.ok THEN [attempts |-> ra.attempts \o rb.attempts, ok |-> rb.ok]
             ELSE ra

\* io::Write::write_all on the composite: a tee writes to both sides, the
\* first side first, and then reports the first error
RECURSIVE write_all(_, _, _)
write_all(w, buf, bad) ==
    IF w.kind = "sink" THEN [attempts |-> <<>>, ok |-> TRUE]
    ELSE IF w.kind = "appender"
    THEN [attempts |-> <<Attempt(w.id, buf, bad)>>, ok |-> w.id \notin bad]
    ELSE LET ra == write_all(w.a, buf, bad)
             rb == write_all(w.b, buf, bad)
         IN  [attempts |-> ra.attempts \o rb.attempts, ok |-> ra.ok /\ rb.ok]

(***************************************************************************)
(* Event formatter: EventFormatter, CustomFormatter, UtcOffsetTime         *)
(*                                                                         *)
(* An event is [level, target, fields], fields a sequence of [name, value]  *)
(* with the values in their textual form.  A Format is Normal, MessageOnly  *)
(* or Custom(template); a template is held by its segments, each a literal  *)
(* text or a placeholder name.  The timestamp sources depend on the        *)
(* environment env: whether the local offset resolves (local_ok), whether  *)
(* the RFC 3339 conversion succeeds (format_ok), and whether               *)
(* tracing_subscriber's SystemTime formats (system_ok).                    *)
(***************************************************************************)
MESSAGE_FIELD_NAME == "message"

fields_TIMESTAMP == "T"

fields_TARGET == "t"

fields_MESSAGE == "m"

fields_FIELDS == "f"

fields_LEVEL == "l"

Lit(text) == [lit |-> TRUE, text |-> text]

Hole(name) == [lit |-> FALSE, text |-> name]

FormatNormal == [kind |-> "Normal", template |-> <<>>]

FormatMessageOnly == [kind |-> "MessageOnly", template |-> <<>>]

FormatCustom(t) == [kind |-> "Custom", template |-> t]

\* the placeholder names fmtorp numbers, in its order
FieldNames == <<"T", "t", "m", "f", "l", "x", "msg">>

\* Fmtr::field_from_name
field_from_name(name) ==
    IF \E i \in 1..Len(FieldNames) : FieldNames[i] = name
    THEN CHOOSE i \in 1..Len(FieldNames) : FieldNames[i] = name
    ELSE 0

\* Fmtr::new: the template with each placeholder as a numbered field
Fmtr_new(template) ==
    [i \in 1..Len(template) |->
        IF template[i].lit THEN [lit |-> TRUE, text |-> template[i].text, id |-> 0]
        ELSE [lit |-> FALSE, text |-> template[i].text,
              id |-> field_from_name(template[i].text)]]

\* CustomFormatter::new
CustomFormatter_new(fmt_str) == [fmtr |-> Fmtr_new(fmt_str)]

\* impl From<ConfigFormat> for EventFormatter
EventFormatter_from(f) ==
    CASE f.kind = "Normal"      -> [kind |-> "Normal", custom |-> [fmtr |-> <<>>]]
      [] f.kind = "MessageOnly" -> [kind |-> "MessageOnly", custom |-> [fmtr |-> <<>>]]
      [] f.kind = "Custom"      -> [kind |-> "Custom",
                                    custom |-> CustomFormatter_new(f.template)]

LocalStamp == "2026-11-05T08:00:00+01:00"

UtcStamp == "2026-11-05T07:00:00Z"

SystemStamp == "2026-11-05T07:00:00.000000Z"

UnknownTime == "<unknown time>"

\* <UtcOffsetTime as FormatTime>::format_time: what it writes and returns
UtcOffsetTime_format_time(env) ==
    LET ts     == IF env.local_ok THEN LocalStamp ELSE UtcStamp
        ts_str == IF env.format_ok THEN ts ELSE ""
    IN  [ok |-> TRUE, text |-> ts_str]

\* <SystemTime as FormatTime>::format_time
SystemTime_format_time(env) ==
    IF env.system_ok THEN [ok |-> TRUE, text |-> SystemStamp]
    ELSE [ok |-> FALSE, text |-> ""]

\* Format<Full, T>::format_timestamp of NORMAL_FMT (timer UtcOffsetTime)
NORMAL_FMT_format_timestamp(env) ==
    LET r == UtcOffsetTime_format_time(env)
    IN  IF r.ok THEN r.text ELSE r.text \o UnknownTime

\* CustomFormatter::format_timestamp
format_timestamp(env) ==
    LET r == SystemTime_format_time(env)
    IN  IF r.ok THEN r.text ELSE r.text \o UnknownTime

\* the level as Format<Full> writes it, five wide
FmtLevel(l) == IF Len(l) = 4 THEN " " \o l ELSE l

\* DefaultFields: the message's value, the other fields as name=value
RECURSIVE format_fields(_)
format_fields(fs) ==
    IF fs = <<>> THEN ""
    ELSE LET f    == Head(fs)
             one  == IF f.name = MESSAGE_FIELD_NAME THEN f.value
                     ELSE f.name \o "=" \o f.value
         IN  IF Len(fs) = 1 THEN one ELSE one \o " " \o format_fields(Tail(fs))

\* NORMAL_FMT.format_event
Normal_format_event(event, env) ==
    NORMAL_FMT_format_timestamp(env) \o " " \o FmtLevel(event.level) \o " "
        \o event.target \o ": " \o format_fields(event.fields) \o "\n"

\* event.record(SingleFieldVisitor): a line for each field of that name
RECURSIVE SingleFieldVisitor_record(_, _)
SingleFieldVisitor_record(fs, field_name) ==
    IF fs = <<>> THEN ""
    ELSE (IF Head(fs).name = field_name THEN Head(fs).value \o "\n" ELSE "")
         \o SingleFieldVisitor_record(Tail(fs), field_name)

\* the message token: Field's Display, that is the field's name, for each
\* field of the event named "message"
RECURSIVE write_message_token(_)
write_message_token(fs) ==
    IF fs = <<>> THEN ""
    ELSE (IF Head(fs).name = MESSAGE_FIELD_NAME THEN Head(fs).name ELSE "")
         \o write_message_token(Tail(fs))

\* <CustomValueWriter as FieldValueWriter>::write_value
write_value(event, env, field) ==
    LET id == field.id
    IN  IF id = field_from_name(fields_TIMESTAMP) THEN format_timestamp(env)
        ELSE IF id = field_from_name(fields_TARGET) THEN event.target
        ELSE IF id = field_from_name(fields_MESSAGE)
        THEN write_message_token(event.fields)
        ELSE IF id = field_from_name(fields_FIELDS) THEN format_fields(event.fields)
        ELSE IF id = field_from_name(fields_LEVEL) THEN event.level
        ELSE ""

\* Fmtr::write: the literals as they are, each field through write_value
RECURSIVE Fmtr_write(_, _, _)
Fmtr_write(fmtr, event, env) ==
    IF fmtr = <<>> THEN ""
    ELSE (IF Head(fmtr).lit THEN Head(fmtr).text
          ELSE write_value(event, env, Head(fmtr)))
         \o Fmtr_write(Tail(fmtr), event, env)

\* CustomFormatter::format_event
Custom_format_event(self, event, env) == Fmtr_write(self.fmtr, event, env)

\* <EventFormatter as FormatEvent>::format_event
format_event(self, event, env) ==
    CASE self.kind = "Custom"      -> Custom_format_event(self.custom, event, env)
      [] self.kind = "MessageOnly" ->
            SingleFieldVisitor_record(event.fields, MESSAGE_FIELD_NAME)
      [] self.kind = "Normal"      -> Normal_format_event(event, env)

(***************************************************************************)
(* Dispatch stage: Logger                                                  *)
(***************************************************************************)
\* Logger::new
Logger_new(level, target, ids, registry, format) ==
    LET made   == mk_writer(ids, registry, None)
        writer == IF made.some THEN made.v ELSE SinkWriter
    IN  [level |-> level, target |-> target, writer |-> writer, format |-> format]

\* <Logger as Layer>::on_event: the fmt layer renders the event and writes
\* the text to the stage's writer
on_event(self, event, env, bad) ==
    LET text == format_event(self.format, event, env)
        w    == write_all(self.writer, text, bad)
    IN  [text |-> text, attempts |-> w.attempts, ok |-> w.ok]

DefaultKey == "<default>"

Keys(cfg) == {DefaultKey} \cup DOMAIN cfg.loggers

LoggerConfig(cfg, k) == IF k = DefaultKey THEN cfg.default ELSE cfg.loggers[k]

\* the handle's stages: the default logger without a target, and one
\* Logger per entry of config.loggers with the entry's key as its target
BuildLoggers(cfg) ==
    [k \in Keys(cfg) |->
        Logger_new(LoggerConfig(cfg, k).level,
                   IF k = DefaultKey THEN None ELSE Some(k),
                   LoggerConfig(cfg, k).appenders,
                   cfg.appenders,
                   EventFormatter_from(LoggerConfig(cfg, k).format))]

(***************************************************************************)
(* The calls on the stages.  A call runs to completion in one step and     *)
(* leaves in last what it was and what it did; Return ends it.             *)
(***************************************************************************)
Idle ==
    [op |-> "idle", logger |-> "", event |-> <<>>, env |-> <<>>, bad |-> {},
     verdict |-> FALSE, calls |-> <<>>]

\* Layer::enabled called on stage k for the event's metadata
Enabled(k, event) ==
    /\ last = Idle
    /\ last' = [Idle EXCEPT !.op = "enabled", !.logger = k, !.event = event,
                            !.verdict = enabled(loggers[k], event)]
    /\ UNCHANGED <<config, appenders, loggers, sizeVars>>

\* Layer::on_event called on stage k
OnEvent(k, event, env, bad) ==
    /\ last = Idle
    /\ last' = [Idle EXCEPT !.op = "on_event", !.logger = k, !.event = event,
                            !.env = env, !.bad = bad,
                            !.calls = [j \in {k} |->
                                          on_event(loggers[j], event, env, bad)]]
    /\ UNCHANGED <<config, appenders, loggers, sizeVars>>

\* the engine offers an event to every stage: on_event on each stage whose
\* enabled accepts the event's metadata
Dispatch(event, env, bad) ==
    /\ last = Idle
    /\ last' = [Idle EXCEPT !.op = "dispatch", !.event = event,
                            !.env = env, !.bad = bad,
                            !.calls = [j \in {k \in DOMAIN loggers :
                                                enabled(loggers[k], event)} |->
                                          on_event(loggers[j], event, env, bad)]]
    /\ UNCHANGED <<config, appenders, loggers, sizeVars>>

\* the call returns
Return ==
    /\ last # Idle
    /\ last' = Idle
    /\ UNCHANGED <<config, appenders, loggers, sizeVars>>

EngineInit(cfg) ==
    /\ config = cfg
    /\ appenders = cfg.appenders
    /\ loggers = BuildLoggers(cfg)
    /\ last = Idle

NoEngine ==
    /\ config = <<>>
    /\ appenders = {}
    /\ loggers = <<>>
    /\ last = Idle

NoSize ==
    /\ size = [lead |-> "", num |-> "", mid |-> "", unit |-> "", trail |-> ""]
    /\ result = NoResult

(***************************************************************************)
(* The size strings tried.  A string is written as its parts: white space, *)
(* the digits, white space, the unit, white space.                         *)
(***************************************************************************)
MaxUnitLen == 2

UnitChars == {"b", "k", "K", "i", "x"}

RECURSIVE StringsUpTo(_, _)
StringsUpTo(alphabet, n) ==
    IF n = 0 THEN {""}
    ELSE LET shorter == StringsUpTo(alphabet, n - 1)
         IN  shorter \cup {s \o c : s \in shorter, c \in alphabet}

KnownSpellings ==
    {"b", "B", "kb", "KB", "Kb", "kib", "KiB", "mb", "MB", "mib", "MiB", "mIb",
     "gb", "GB", "gib", "GIB", "tb", "TB", "tB", "tib", "TiB"}

UnknownSpellings == {"xy", "bytes", "kbs", "bk", "mbb", "tbi"}

Units == StringsUpTo(UnitChars, MaxUnitLen) \cup KnownSpellings \cup UnknownSpellings

\* around 2^24, 2^34, 2^44, 2^54 and 2^64, where the multiplications overflow
Numbers ==
    {"", "0", "1", "5", "10", "007",
     "16777215", "16777216",
     "17179869183", "17179869184",
     "17592186044415", "17592186044416",
     "18014398509481983", "18014398509481984",
     "18446744073709551615", "18446744073709551616",
     "99999999999999999999999"}

Layouts ==
    {[lead |-> "",  mid |-> "",   trail |-> ""],
     [lead |-> "",  mid |-> " ",  trail |-> ""],
     [lead |-> "",  mid |-> "",   trail |-> " "],
     [lead |-> "",  mid |-> "\t", trail |-> " \n"],
     [lead |-> " ", mid |-> "",   trail |-> ""]}

SizeInputs ==
    {[lead |-> l.lead, num |-> n, mid |-> l.mid, unit |-> u, trail |-> l.trail] :
        l \in Layouts, n \in Numbers, u \in Units}

SizeText(p) == p.lead \o p.num \o p.mid \o p.unit \o p.trail

(***************************************************************************)
(* SizeSpec: the size parser applied to every size string                  *)
(***************************************************************************)
SizeInit ==
    /\ size \in SizeInputs
    /\ result = NoResult
    /\ NoEngine

CalculateMaximumFileSize ==
    /\ result = NoResult
    /\ result' = calculate_maximum_file_size(SizeText(size))
    /\ UNCHANGED <<size, engineVars>>

SizeNext == CalculateMaximumFileSize

SizeSpec == SizeInit /\ [][SizeNext]_vars

(***************************************************************************)
(* The configurations, events and environments tried                       *)
(***************************************************************************)
LoggerCfg(ids, level, format) ==
    [appenders |-> ids, level |-> level, format |-> format]

Event(level, target, fields) ==
    [level |-> level, target |-> target, fields |-> fields]

Field(name, value) == [name |-> name, value |-> value]

Envs == [local_ok : BOOLEAN, format_ok : BOOLEAN, system_ok : BOOLEAN]

FairWeather == [local_ok |-> TRUE, format_ok |-> TRUE, system_ok |-> TRUE]

\* the sequences that list each element of a set once: the orders in which
\* a HashSet may be iterated
RECURSIVE Orders(_)
Orders(S) ==
    IF S = {} THEN {<<>>}
    ELSE UNION {{<<x>> \o o : o \in Orders(S \ {x})} : x \in S}

(***************************************************************************)
(* MatchSpec: Layer::enabled on a target-less and a targeted logger, for   *)
(* every threshold, level and pair of targets                              *)
(***************************************************************************)
MaxTargetLen == 2

TargetChars == {"d", "b"}

Targets == StringsUpTo(TargetChars, MaxTargetLen)

MatchConfigs ==
    {[default   |-> LoggerCfg(<<>>, f, FormatNormal),
      loggers   |-> [t \in {T} |-> LoggerCfg(<<>>, f, FormatNormal)],
      appenders |-> {}] : f \in LevelFilters, T \in Targets}

MatchEvents == {Event(l, E, <<>>) : l \in Levels, E \in Targets}

MatchInit == NoSize /\ \E cfg \in MatchConfigs : EngineInit(cfg)

MatchNext ==
    \/ \E k \in DOMAIN loggers, e \in MatchEvents : Enabled(k, e)
    \/ Return

MatchSpec == MatchInit /\ [][MatchNext]_vars

(***************************************************************************)
(* WriterSpec: one logger built from every set of ids, in every iteration  *)
(* order, against every registry; writes with every set of failing sinks   *)
(***************************************************************************)
MaxAppenders == 3

AppenderIds == {"a" \o DigitStr(i) : i \in 1..MaxAppenders}

WriterConfigs ==
    {[default   |-> LoggerCfg(ids, "TRACE", FormatMessageOnly),
      loggers   |-> <<>>,
      appenders |-> R] :
        ids \in UNION {Orders(S) : S \in SUBSET AppenderIds},
        R \in SUBSET AppenderIds}

WriterEvents ==
    {Event("INFO", "db", <<Field(MESSAGE_FIELD_NAME, m)>>) : m \in {"hi", "bye"}}

WriterInit == NoSize /\ \E cfg \in WriterConfigs : EngineInit(cfg)

WriterNext ==
    \/ \E e \in WriterEvents, bad \in SUBSET appenders :
          OnEvent(DefaultKey, e, FairWeather, bad)
    \/ Return

WriterSpec == WriterInit /\ [][WriterNext]_vars

(***************************************************************************)
(* Spec: the dispatch engine with a default logger and targeted loggers    *)
(***************************************************************************)
DispatchTargets == {"d", "db"}

DispatchTemplate == <<Hole("l"), Lit(" "), Hole("t"), Lit(" "), Hole("f")>>

\* the wiring of a targeted logger: "d" shares a1 with the default logger
TargetedCfg(t, f) ==
    IF t = "d" THEN LoggerCfg(<<"a1", "a2">>, f, FormatMessageOnly)
    ELSE LoggerCfg(<<"a3">>, f, FormatCustom(DispatchTemplate))

DispatchConfigs ==
    {[default   |-> LoggerCfg(<<"a1">>, f0, FormatNormal),
      loggers   |-> [t \in ts |-> TargetedCfg(t, fs[t])],
      appenders |-> {"a1", "a2", "a3"}] :
        f0 \in LevelFilters,
        ts \in SUBSET DispatchTargets,
        fs \in [DispatchTargets -> LevelFilters]}

DispatchEvents ==
    {Event(l, E, <<Field(MESSAGE_FIELD_NAME, "connect")>>) :
        l \in Levels, E \in {"d", "db", "dbx", "b"}}

DispatchFailures == {{}, {"a1"}}

Init == NoSize /\ \E cfg \in DispatchConfigs : EngineInit(cfg)

Next ==
    \/ \E e \in DispatchEvents, bad \in DispatchFailures :
          Dispatch(e, FairWeather, bad)
    \/ \E k \in DOMAIN loggers, e \in DispatchEvents, bad \in DispatchFailures :
          OnEvent(k, e, FairWeather, bad)
    \/ \E k \in DOMAIN loggers, e \in DispatchEvents : Enabled(k, e)
    \/ Return

Spec == Init /\ [][Next]_vars

(***************************************************************************)
(* FmtSpec: one logger with each format, rendering events with and without *)
(* a message under every environment of the timestamp sources              *)
(***************************************************************************)
Templates ==
    {<<Hole("T"), Lit(" "), Hole("l"), Lit(" "), Hole("t"), Lit(": "), Hole("m")>>,
     <<Hole("m")>>,
     <<Hole("f")>>,
     <<Lit("["), Hole("x"), Lit("] "), Hole("m")>>,
     <<Hole("T"), Lit(" "), Hole("msg")>>}

Formats == {FormatNormal, FormatMessageOnly} \cup {FormatCustom(t) : t \in Templates}

FmtConfigs ==
    {[default   |-> LoggerCfg(<<"a1">>, "TRACE", f),
      loggers   |-> <<>>,
      appenders |-> {"a1"}] : f \in Formats}

FmtEvents ==
    {Event(l, "db", fs) :
        l \in {"INFO", "WARN"},
        fs \in {<<>>,
                <<Field(MESSAGE_FIELD_NAME, "hello")>>,
                <<Field(MESSAGE_FIELD_NAME, "hello"), Field("user", "x")>>,
                <<Field("user", "x")>>}}

FmtInit == NoSize /\ \E cfg \in FmtConfigs : EngineInit(cfg)

FmtNext ==
    \/ \E e \in FmtEvents, env \in Envs : OnEvent(DefaultKey, e, env, {})
    \/ Return

FmtSpec == FmtInit /\ [][FmtNext]_vars

(***************************************************************************)
(* Claims about the matcher, the multiplexer and the dispatch engine       *)
(***************************************************************************)
\* the severity scale of the specification: ERROR < WARN < INFO < DEBUG < TRACE
Rank(l) ==
    CASE l = "ERROR" -> 1 [] l = "WARN" -> 2 [] l = "INFO" -> 3
      [] l = "DEBUG" -> 4 [] l = "TRACE" -> 5

LevelAccepted(f, l) == f # "OFF" /\ Rank(l) <= Rank(f)

\* E is T followed by some suffix
IsPrefix(T, E) == \E i \in 1..(Len(E) + 1) : T \o Rest(E, i) = E

\* what the configuration says of stage k and an event
Accepts(k, event) ==
    /\ LevelAccepted(LoggerConfig(config, k).level, event.level)
    /\ k = DefaultKey \/ IsPrefix(k, event.target)

\* the appenders of stage k's configuration that the registry holds
Resolved(k) ==
    {LoggerConfig(config, k).appenders[i] :
        i \in 1..Len(LoggerConfig(config, k).appenders)} \cap appenders

AttemptIds(c) == {c.attempts[i].id : i \in 1..Len(c.attempts)}

\* the stage wrote the event, rendered by its own format, once to each of
\* its own resolved appenders
WroteOwn(k) ==
    LET c == last.calls[k]
    IN  /\ c.text = format_event(EventFormatter_from(LoggerConfig(config, k).format),
                                 last.event, last.env)
        /\ AttemptIds(c) = Resolved(k)
        /\ Len(c.attempts) = Cardinality(Resolved(k))
        /\ \A i \in 1..Len(c.attempts) : c.attempts[i].buf = c.text

C2_RejectedNotWritten ==
    (last.op = "on_event" /\ ~is_enabled(loggers[last.logger], last.event)) =>
        last.calls[last.logger].attempts = <<>>

\* C3: is_enabled is true iff the level is at least as severe as the
\* threshold (never for OFF) and the logger has no target or the event's
\* target starts with it.
C3_IsEnabled ==
    last.op = "enabled" =>
        (last.verdict <=>
            /\ LevelAccepted(loggers[last.logger].level, last.event.level)
            /\ \/ ~loggers[last.logger].target.some
               \/ IsPrefix(loggers[last.logger].target.v, last.event.target))

\* a logger for "d" accepts an event of "db": no segment boundary is asked
C3_Witness ==
    /\ last.op = "enabled"
    /\ last.logger = "d" /\ loggers["d"].level = "INFO"
    /\ last.event.target = "db" /\ last.event.level = "INFO"
    /\ last.verdict

RECURSIVE Leaves(_)
Leaves(w) ==
    IF w.kind = "sink" THEN <<>>
    ELSE IF w.kind = "appender" THEN <<w.id>>
    ELSE Leaves(w.a) \o Leaves(w.b)

ConfiguredIds(k) ==
    {LoggerConfig(config, k).appenders[i] :
        i \in 1..Len(LoggerConfig(config, k).appenders)}

\* C6: the destination built from the ids S against the registry R holds
\* exactly the sinks of S that R resolves, and is the no-op sink when none
\* does; a write reaches each of them once with the same bytes, and a write
\* to the no-op sink succeeds and reaches nothing.
C6_BuildWriter ==
    /\ \A k \in DOMAIN loggers :
          LET ls == Leaves(loggers[k].writer)
          IN  /\ {ls[i] : i \in 1..Len(ls)} = ConfiguredIds(k) \cap appenders
              /\ Len(ls) = Cardinality(ConfiguredIds(k) \cap appenders)
              /\ (loggers[k].writer = SinkWriter)
                    <=> (ConfiguredIds(k) \cap appenders = {})
    /\ last.op = "on_event" =>
          LET c == last.calls[last.logger]
              R == ConfiguredIds(last.logger) \cap appenders
          IN  /\ AttemptIds(c) = R
              /\ Len(c.attempts) = Cardinality(R)
              /\ \A i \in 1..Len(c.attempts) : c.attempts[i].buf = c.text
              /\ R = {} => c.ok

\* two of three ids resolve, and a write reaches both
C6_Witness ==
    /\ last.op = "on_event"
    /\ Cardinality(ConfiguredIds(DefaultKey)) = 3
    /\ Cardinality(appenders) = 2
    /\ Len(last.calls[DefaultKey].attempts) = 2

\* no id resolves: the write succeeds and reaches nothing
C6_WitnessSink ==
    /\ last.op = "on_event"
    /\ ConfiguredIds(DefaultKey) # {}
    /\ ConfiguredIds(DefaultKey) \cap appenders = {}
    /\ last.calls[DefaultKey].ok
    /\ last.calls[DefaultKey].attempts = <<>>

\* the configured ids the registry resolves, in the order they are iterated
RECURSIVE ResolvedInOrder(_)
ResolvedInOrder(ids) ==
    IF ids = <<>> THEN <<>>
    ELSE (IF Head(ids) \in appenders THEN <<Head(ids)>> ELSE <<>>)
         \o ResolvedInOrder(Tail(ids))

\* C7: a write to a destination of two or more sinks is performed on every
\* sink, in the order the sinks were added, whichever of them fail.
C7_AllSinksInOrder ==
    (last.op = "on_event" /\ Cardinality(Resolved(last.logger)) >= 2) =>
        LET c     == last.calls[last.logger]
            order == ResolvedInOrder(LoggerConfig(config, last.logger).appenders)
        IN  /\ Len(c.attempts) = Len(order)
            /\ \A i \in 1..Len(order) :
                  /\ c.attempts[i].id = order[i]
                  /\ c.attempts[i].ok <=> order[i] \notin last.bad

\* three sinks, the first fails, the two after it are still written
C7_Witness ==
    /\ last.op = "on_event"
    /\ Len(last.calls[DefaultKey].attempts) = 3
    /\ ~last.calls[DefaultKey].attempts[1].ok
    /\ last.calls[DefaultKey].attempts[2].ok
    /\ last.calls[DefaultKey].attempts[3].ok
    /\ ~last.calls[DefaultKey].ok

(***************************************************************************)
(* Claims about the formatter (FmtSpec)                                    *)
(***************************************************************************)
SupportedTokens ==
    {fields_TIMESTAMP, fields_TARGET, fields_MESSAGE, fields_FIELDS, fields_LEVEL}

HoldsUnknownPlaceholder(formatter) ==
    /\ formatter.kind = "Custom"
    /\ \E i \in 1..Len(formatter.custom.fmtr) :
          /\ ~formatter.custom.fmtr[i].lit
          /\ formatter.custom.fmtr[i].text \notin SupportedTokens

\* C8: a template with a placeholder other than the five tokens is rejected
\* when the Format is turned into a Formatter, so no stage holds, and no
\* event is rendered through, a formatter with an unknown placeholder.
C8_UnknownPlaceholderRejected ==
    last.op = "on_event" => ~HoldsUnknownPlaceholder(loggers[last.logger].format)

\* the timestamp the claim expects: local time, else UTC, and the marker
\* when the conversion of the timestamp fails
ClaimedStamp(env) ==
    IF ~env.format_ok THEN UnknownTime
    ELSE IF env.local_ok THEN LocalStamp ELSE UtcStamp

StartsWithTimestamp(formatter) ==
    \/ formatter.kind = "Normal"
    \/ /\ formatter.kind = "Custom"
       /\ formatter.custom.fmtr # <<>>
       /\ formatter.custom.fmtr[1].text = fields_TIMESTAMP
       /\ ~formatter.custom.fmtr[1].lit

\* C10: Normal and the timestamp token of Custom write the same timestamp
\* (local time, else UTC), and the "unknown time" marker in its place when
\* the timestamp source fails; the rest of the record is still written.
C10_UnknownTimeMarker ==
    (last.op = "on_event" /\ StartsWithTimestamp(loggers[last.logger].format)) =>
        LET text == last.calls[last.logger].text
        IN  /\ starts_with(text, ClaimedStamp(last.env) \o " ")
            /\ Len(text) > Len(ClaimedStamp(last.env)) + 1

\* the textual form of the content of the fields named "message"
RECURSIVE MessageValue(_)
MessageValue(fs) ==
    IF fs = <<>> THEN ""
    ELSE (IF Head(fs).name = MESSAGE_FIELD_NAME THEN Head(fs).value ELSE "")
         \o MessageValue(Tail(fs))

IsMessageTokenOnly(formatter) ==
    /\ formatter.kind = "Custom"
    /\ Len(formatter.custom.fmtr) = 1
    /\ ~formatter.custom.fmtr[1].lit
    /\ formatter.custom.fmtr[1].text = fields_MESSAGE

\* C11: the message token of a Custom formatter writes the value of the
\* event's field named "message" and of no other field, and nothing for an
\* event without such a field.
C11_MessageTokenValue ==
    (last.op = "on_event" /\ IsMessageTokenOnly(loggers[last.logger].format)) =>
        last.calls[last.logger].text = MessageValue(last.event.fields)

(***************************************************************************)
(* Claims about the size parser (SizeSpec)                                 *)
(***************************************************************************)
RECURSIVE Lowered(_)
Lowered(s) ==
    IF Len(s) = 0 THEN ""
    ELSE to_ascii_lowercase(CharAt(s, 1)) \o Lowered(Rest(s, 2))

\* the power of 1024 a unit stands for; -1 for a unit that is not recognised
UnitPower(u) ==
    LET l == Lowered(u)
    IN  IF l = "b" THEN 0
        ELSE IF l \in {"kb", "kib"} THEN 1
        ELSE IF l \in {"mb", "mib"} THEN 2
        ELSE IF l \in {"gb", "gib"} THEN 3
        ELSE IF l \in {"tb", "tib"} THEN 4
        ELSE 0 - 1

\* n * 1024^k, exactly
RECURSIVE Times1024(_, _)
Times1024(n, k) == IF k = 0 THEN n ELSE Times1024(NumMulSmall(n, 1024), k - 1)

Fits64(n) == NumLeq(n, U64_MAX)

SizeDone == result.tag # "none"

\* digits directly followed by a unit (white space allowed around the unit)
DigitsThenUnit == size.lead = "" /\ size.num # "" /\ size.unit # ""

DigitValue == StrToNum(size.num)

\* C4 as stated: digits n then a unit u give n * 1024^k for the recognised
\* units, matched whatever the case, whenever the product fits 64 bits, and
\* UnexpectedUnit(u) for every other unit.
C4_AsStated ==
    (SizeDone /\ DigitsThenUnit) =>
        LET k == UnitPower(size.unit)
        IN  IF k < 0 THEN result = ErrUnexpectedUnit(size.unit)
            ELSE Fits64(Times1024(DigitValue, k))
                    => result = Ok(Times1024(DigitValue, k))

\* C4 amended: the same for every n that fits 64 bits; a digit run whose
\* value does not fit gives the numeric-parse error whatever the unit is.
C4_UnitTable ==
    (SizeDone /\ DigitsThenUnit) =>
        LET k == UnitPower(size.unit)
        IN  IF ~Fits64(DigitValue) THEN result = ErrParseInt("PosOverflow")
            ELSE IF k < 0 THEN result = ErrUnexpectedUnit(size.unit)
            ELSE Fits64(Times1024(DigitValue, k))
                    => result = Ok(Times1024(DigitValue, k))

C4_Witness ==
    /\ size.num = "10" /\ size.unit = "KiB" /\ size.mid = " "
    /\ result = Ok(<<1, 240>>)

C4_WitnessUnknown ==
    /\ DigitsThenUnit /\ size.unit = "kbs"
    /\ result = ErrUnexpectedUnit("kbs")

\* C5 as stated: whenever n times the multiplier of a recognised unit exceeds
\* 2^64 - 1 the result is Overflow{n, the unit as written}, and a result
\* Ok(v) always holds the exact product.
C5_AsStated ==
    /\ (SizeDone /\ DigitsThenUnit /\ UnitPower(size.unit) >= 0
            /\ ~Fits64(Times1024(DigitValue, UnitPower(size.unit))))
          => result = ErrOverflow(DigitValue, size.unit)
    /\ (SizeDone /\ result.tag = "Ok")
          => result.value = NumToStr(Times1024(DigitValue,
                                IF size.unit = "" THEN 0 ELSE UnitPower(size.unit)))

\* C5 amended: the overflow error is returned when n itself fits 64 bits and
\* the product does not; when n does not fit, the numeric-parse error is.
C5_NoWraparound ==
    /\ (SizeDone /\ DigitsThenUnit /\ UnitPower(size.unit) >= 0
            /\ ~Fits64(Times1024(DigitValue, UnitPower(size.unit))))
          => IF Fits64(DigitValue)
             THEN result = ErrOverflow(DigitValue, size.unit)
             ELSE result = ErrParseInt("PosOverflow")
    /\ (SizeDone /\ result.tag = "Ok")
          => /\ UnitPower(size.unit) >= 0 \/ size.unit = ""
             /\ result.value = NumToStr(Times1024(DigitValue,
                                IF size.unit = "" THEN 0 ELSE UnitPower(size.unit)))

C5_Witness ==
    /\ size.num = "16777216" /\ size.unit = "TiB"
    /\ result = ErrOverflow(<<1677, 7216>>, "TiB")

\* C9: digits followed by nothing, or by white space only, give the digit
\* value as the byte count; and white space around the number part or the
\* unit part does not change the result of the same input without it.
C9_EmptyUnitAndWhitespace ==
    /\ (SizeDone /\ size.num # "" /\ size.unit = "" /\ size.lead = ""
            /\ Fits64(DigitValue))
          => result = Ok(DigitValue)
    /\ SizeDone => result = calculate_maximum_file_size(size.num \o size.unit)

=============================================================================
